---- MODULE Spec2Model ----
(***************************************************************************)
(* The allocators of assets/src/allocators: the global linear allocator    *)
(* (linear.c), the fixed buffer allocator (fba.h) and the arena of chained *)
(* blocks (arena.h).  Each .c file is a program of its own; `prog` says    *)
(* which one is running.  Addresses and sizes are machine words, so all    *)
(* arithmetic on them is taken modulo 2^WordBits.  NULL is the address 0.  *)
(***************************************************************************)
EXTENDS Integers, Sequences, FiniteSets, TLC

\* ------------------------------------------------------------ bounds ----
\* Width in bits of size_t / uintptr_t in the model.
WordBits == 13
\* Number of addresses the backing allocator (malloc) can hand out.
MaxBlocks == 3
\* Number of successful allocations recorded between two resets.
MaxAllocs == 2
\* ba_free is called only while the caller holds at most this many cells.
MaxOutstanding == 3

\* --------------------------------------------------- program constants --
BUFFER_SIZE == 1024
ARENA_BLOCK_SIZE == 1024
\* sizeof(void *) on the LP64 targets the demos were run on.
PtrSize == 8
\* Alignment malloc guarantees (max_align_t).
MallocAlign == 16

RECURSIVE Pow2(_)
Pow2(n) == IF n = 0 THEN 1 ELSE 2 * Pow2(n - 1)

\* Number of values of a machine word: size_t arithmetic is modulo M.
M == Pow2(WordBits)

NULL == 0

\* offsetof(arena_block_t, buffer): next, buffer_end, head come first.
HeaderSize == 3 * PtrSize

\* Bitwise and of two words of n bits, as the `&` of ALIGN_TO computes it.
RECURSIVE BitAnd(_, _, _)
BitAnd(x, y, n) ==
  IF n = 0 THEN 0
  ELSE (IF x % 2 = 1 /\ y % 2 = 1 THEN 1 ELSE 0)
       + 2 * BitAnd(x \div 2, y \div 2, n - 1)

\* A plausible slip in the macro: the mask without adding (align - 1) first,
\* which rounds down.
ALIGN_TO_down(value, alignment) ==
  BitAnd(value, (M - alignment) % M, WordBits)

\* ((_value) + ((_alignment) - 1) & -(_alignment)) on unsigned words:
\* + binds tighter than &.
ALIGN_TO(value, alignment) ==
  BitAnd((value + ((alignment + M - 1) % M)) % M, (M - alignment) % M, WordBits)

\* What a build makes of `head + size` when the sum leaves the address
\* space (pointer arithmetic past the object is undefined): the sum wraps,
\* or the comparison is folded as if pointers were unbounded.
PtrOverflow == {"wrap", "exact"}

\* `head + size > buffer_end` on uint8_t pointers.
PtrAddGreater(head, size, buffer_end, ub) ==
  IF head + size >= M /\ ub = "wrap"
  THEN (head + size) % M > buffer_end
  ELSE head + size > buffer_end

\* ----------------------------------------------------------- inputs -----
\* Power-of-two alignments, up to the largest one a word can hold.
Aligns == {1, 8, M \div 2}

\* Where the linker puts linear.c's global buffer.
buffer == 512
\* Sizes passed to allocate(): empty, half the buffer, the whole buffer, and
\* one near SIZE_MAX.
LinearSizes == {0, BUFFER_SIZE \div 2, BUFFER_SIZE, M - BUFFER_SIZE \div 2}

\* Buffers a caller hands to fba_init: one low, one in the upper half of
\* the address space.
FbaBuffers == {256, M - 2 * BUFFER_SIZE}
FbaBufferSizes == {BUFFER_SIZE}
\* Sizes passed to fba_alloc_opt: empty, sizeof(int), a whole buffer,
\* SIZE_MAX.
FbaSizes == {0, 4, BUFFER_SIZE, M - 1}

\* Addresses malloc can return for an ARENA_BLOCK_SIZE block: spread over
\* the address space, MallocAlign-aligned, never in its last
\* ARENA_BLOCK_SIZE bytes.
BlockAddr(i) ==
  LET step == (M - 2 * ARENA_BLOCK_SIZE) \div MaxBlocks
  IN  (i * step) - ((i * step) % MallocAlign)
MallocAddrs == {BlockAddr(i) : i \in 1..MaxBlocks}
\* Sizes passed to arena_alloc: sizeof(int), exactly the usable capacity of
\* a block, one more, SIZE_MAX.
ArenaSizes == {4, ARENA_BLOCK_SIZE - HeaderSize,
               ARENA_BLOCK_SIZE - HeaderSize + 1, M - 1}

\* Where block_allocator.c's static buffer lies.
BaBuffer == 1024
\* sizeof(buffer) and sizeof(item_t) in main.
BaMainBufferSize == 4096
BaMainItemSize == 36
\* Pairs <<buffer_size, item_size>> given to ba_init: items of main's size,
\* a buffer smaller than an item, an exact multiple, remainders, and an
\* item smaller than a link.
BaConfigs == {<<10 * BaMainItemSize, BaMainItemSize>>, <<4, 8>>, <<16, 8>>,
              <<30, 8>>, <<30, 12>>, <<16, 4>>}
\* What the store of a link does when it runs past the end of the buffer
\* (undefined): it lands in whatever lies behind the buffer, or it faults.
StoreOutcomes == {"lands", "fault"}

\* Words a read of blk->head and of blk->buffer_end through a null blk can
\* yield.
GarbageHeads == {40}
GarbageEnds == {0, 2000}

VARIABLES
  prog,          \* which program runs: "linear", "fba", "arena" or
                 \* "block_allocator"
  pc,            \* "idle", or "clear" inside arena_clear's loop
  head,          \* linear.c: size_t head
  fba,           \* fba_t: [buffer, buffer_end, head]
  arena,         \* arena_t: [blocks]
  heap,          \* live arena blocks: address -> [next, buffer_end, head]
  b,             \* arena_clear's local b
  hist,          \* allocations returned since the last reset/clear
  last,          \* the call that just returned: operation, arguments, result
  crashed,       \* the process took a fault
  badfree,       \* free() was called on an address that is not live
  ba,            \* block_allocator_t: [buffer, buffer_end, blocks]
  links,         \* link words stored in memory: address -> next
  bah            \* block allocator: ba_init's arguments and the caller's view

vars == <<prog, pc, head, fba, arena, heap, b, hist, last, crashed, badfree,
          ba, links, bah>>

\* size, align, ret: arguments and returned pointer.  from: the head the
\* returned pointer was bumped from.  blk: the block (or buffer) it lies in.
\* mfail: a malloc made by the call returned NULL.  nullblk: the call went
\* through a null block pointer.
NoCall == [op |-> "none", size |-> 0, align |-> 0, ret |-> NULL,
           from |-> NULL, blk |-> NULL, mfail |-> FALSE, nullblk |-> FALSE]

Call(op, size, align, ret) ==
  [NoCall EXCEPT !.op = op, !.size = size, !.align = align, !.ret = ret]

EmptyHeap == [x \in {} |-> NULL]

\* inited: ba_init has returned.  buffer_size, item_size: its arguments.
\* out: the cells the caller holds (returned by ba_alloc, not given back).
\* p: the pointer passed to the last ba_free.  freed: ba_free was called.
\* misuse: ba_free was given a pointer the caller did not hold.
NoInit == [inited |-> FALSE, buffer_size |-> 0, item_size |-> 0, out |-> {},
           p |-> NULL, freed |-> FALSE, misuse |-> FALSE]

Init ==
  /\ prog \in {"linear", "fba", "arena", "block_allocator"}
  /\ pc = "idle"
  /\ head = 0
  /\ fba = [buffer |-> NULL, buffer_end |-> NULL, head |-> NULL]
  /\ arena = [blocks |-> NULL]
  /\ heap = EmptyHeap
  /\ b = NULL
  /\ hist = <<>>
  /\ last = NoCall
  /\ crashed = FALSE
  /\ badfree = FALSE
  /\ ba = [buffer |-> NULL, buffer_end |-> NULL, blocks |-> NULL]
  /\ links = EmptyHeap
  /\ bah = NoInit

Running(p) == prog = p /\ pc = "idle" /\ ~crashed

\* A recorded allocation: the pointer, the requested size, the block (or
\* buffer) it came from.
Alloc(ptr, size, blk) == [ptr |-> ptr, size |-> size, blk |-> blk]

Record(h, ptr, size, blk) ==
  IF ptr # NULL THEN Append(h, Alloc(ptr, size, blk)) ELSE h

\* ---------------------------------------------------------- linear.c ----
allocate(size) ==
  /\ Running("linear")
  /\ Len(hist) < MaxAllocs
  /\ LET mem == (buffer + head) % M
         ret == IF (head + size) % M > BUFFER_SIZE THEN NULL ELSE mem
     IN  /\ head' = (head + size) % M
         /\ last' = [Call("allocate", size, 1, ret)
                       EXCEPT !.from = head, !.blk = buffer]
         /\ hist' = Record(hist, ret, size, buffer)
  /\ UNCHANGED <<ba, links, bah, prog, pc, fba, arena, heap, b, crashed, badfree>>

NextLinear == \E size \in LinearSizes : allocate(size)

\* ------------------------------------------------------------- fba.h ----
fba_init(buf, buffer_size) ==
  /\ Running("fba")
  /\ fba' = [buffer |-> buf, buffer_end |-> buf + buffer_size, head |-> buf]
  /\ hist' = <<>>
  /\ last' = Call("fba_init", buffer_size, 0, NULL)
  /\ UNCHANGED <<ba, links, bah, prog, pc, head, arena, heap, b, crashed, badfree>>

\* A slip in reset: the call is recorded but head is left where it was.
fba_reset_keeps_head ==
  /\ Running("fba")
  /\ fba' = fba
  /\ hist' = <<>>
  /\ last' = Call("fba_reset", 0, 0, NULL)
  /\ UNCHANGED <<ba, links, bah, prog, pc, head, arena, heap, b, crashed, badfree>>

fba_reset ==
  /\ Running("fba")
  /\ fba' = [fba EXCEPT !.head = fba.buffer]
  /\ hist' = <<>>
  /\ last' = Call("fba_reset", 0, 0, NULL)
  /\ UNCHANGED <<ba, links, bah, prog, pc, head, arena, heap, b, crashed, badfree>>

\* The body shared by fba_alloc_opt and arena_block_alloc, on a record with
\* head and buffer_end: the record afterwards and the returned pointer.
Bump(r, size, align, ub) ==
  LET h == ALIGN_TO(r.head, align)
  IN  IF PtrAddGreater(h, size, r.buffer_end, ub)
      THEN [r |-> r, ret |-> NULL]
      ELSE [r |-> [r EXCEPT !.head = (h + size) % M], ret |-> h]

fba_alloc_opt(size, align, ub) ==
  /\ Running("fba")
  /\ Len(hist) < MaxAllocs
  /\ LET res == Bump(fba, size, align, ub)
     IN  /\ fba' = res.r
         /\ last' = [Call("fba_alloc_opt", size, align, res.ret)
                       EXCEPT !.from = fba.head, !.blk = fba.buffer]
         /\ hist' = Record(hist, res.ret, size, fba.buffer)
  /\ UNCHANGED <<ba, links, bah, prog, pc, head, arena, heap, b, crashed, badfree>>

NextFba ==
  \/ \E buf \in FbaBuffers, n \in FbaBufferSizes : fba_init(buf, n)
  \/ fba_reset
  \/ \E size \in FbaSizes, align \in Aligns, ub \in PtrOverflow :
       fba_alloc_opt(size, align, ub)

\* ----------------------------------------------------------- arena.h ----
\* The block list from a->blocks along the next pointers, most recent first.
RECURSIVE BlockList(_, _)
BlockList(blk, h) ==
  IF blk = NULL \/ blk \notin DOMAIN h THEN <<>>
  ELSE <<blk>> \o BlockList(h[blk].next, h)

HeapWith(h, blk, r) ==
  [x \in DOMAIN h \cup {blk} |-> IF x = blk THEN r ELSE h[x]]

HeapWithout(h, blk) == [x \in DOMAIN h \ {blk} |-> h[x]]

\* malloc(ARENA_BLOCK_SIZE): fails, or returns the lowest address that is
\* not live (a first-fit backing allocator).
malloc(h) ==
  LET free == MallocAddrs \ DOMAIN h
  IN  {NULL} \cup {m \in free : \A x \in free : m <= x}

arena_block_init(blk, next) ==
  [next |-> next, buffer_end |-> blk + ARENA_BLOCK_SIZE,
   head |-> blk + HeaderSize]

\* A slip in the list insertion: the new block forgets the old list.
arena_new_block_unlinked(a, h) ==
  {IF m = NULL
   THEN [a |-> a, heap |-> h, blk |-> NULL]
   ELSE [a |-> [a EXCEPT !.blocks = m],
         heap |-> HeapWith(h, m, arena_block_init(m, NULL)),
         blk |-> m] : m \in malloc(h)}

\* The outcomes of arena_new_block: the arena, the heap and the returned
\* block, one per outcome of malloc.
arena_new_block(a, h) ==
  {IF m = NULL
   THEN [a |-> a, heap |-> h, blk |-> NULL]
   ELSE [a |-> [a EXCEPT !.blocks = m],
         heap |-> HeapWith(h, m, arena_block_init(m, a.blocks)),
         blk |-> m] : m \in malloc(h)}

\* A different policy: reuse the oldest block of the list instead of the
\* most recent one.
arena_get_block_oldest(a, h) ==
  IF a.blocks # NULL
  THEN {[a |-> a, heap |-> h,
         blk |-> BlockList(a.blocks, h)[Len(BlockList(a.blocks, h))]]}
  ELSE arena_new_block(a, h)

arena_get_block(a, h) ==
  IF a.blocks # NULL
  THEN {[a |-> a, heap |-> h, blk |-> a.blocks]}
  ELSE arena_new_block(a, h)

\* The outcomes of arena_block_alloc(blk, size, align).  Through a null blk
\* the reads of blk->head and blk->buffer_end are undefined: the process
\* faults, or they yield arbitrary words and the code goes on with them
\* (the store to blk->head then lands outside the arena).
arena_block_alloc(h, blk, size, align) ==
  IF blk = NULL
  THEN {[heap |-> h, ret |-> NULL, from |-> NULL, fault |-> TRUE]} \cup
       {[heap |-> h,
         ret |-> Bump([head |-> g, buffer_end |-> e], size, align, ub).ret,
         from |-> g, fault |-> FALSE] :
           g \in GarbageHeads, e \in GarbageEnds, ub \in PtrOverflow}
  ELSE {LET res == Bump(h[blk], size, align, ub)
        IN  [heap |-> [h EXCEPT ![blk] = res.r], ret |-> res.ret,
             from |-> h[blk].head, fault |-> FALSE] : ub \in PtrOverflow}

\* The outcomes of arena_alloc(a, size, align): the arena and heap
\* afterwards, the returned pointer, and what happened on the way.
arena_alloc_outcomes(a, h, size, align) ==
  UNION {
    IF g.blk = NULL
    THEN {[a |-> g.a, heap |-> g.heap, ret |-> NULL, from |-> NULL,
           blk |-> NULL, fault |-> FALSE, mfail |-> TRUE,
           nullblk |-> FALSE]}
    ELSE UNION {
      IF first.ret # NULL
      THEN {[a |-> g.a, heap |-> first.heap, ret |-> first.ret,
             from |-> first.from, blk |-> g.blk, fault |-> FALSE,
             mfail |-> FALSE, nullblk |-> FALSE]}
      ELSE UNION {
        {[a |-> n.a, heap |-> second.heap, ret |-> second.ret,
          from |-> second.from, blk |-> n.blk, fault |-> second.fault,
          mfail |-> (n.blk = NULL), nullblk |-> (n.blk = NULL)] :
            second \in arena_block_alloc(n.heap, n.blk, size, align)} :
          n \in arena_new_block(g.a, first.heap)} :
        first \in arena_block_alloc(g.heap, g.blk, size, align)} :
      g \in arena_get_block(a, h)}

arena_alloc(size, align) ==
  /\ Running("arena")
  /\ Len(hist) < MaxAllocs
  /\ \E o \in arena_alloc_outcomes(arena, heap, size, align) :
       /\ arena' = o.a
       /\ heap' = o.heap
       /\ crashed' = o.fault
       /\ last' = [Call("arena_alloc", size, align, o.ret)
                     EXCEPT !.from = o.from, !.blk = o.blk,
                            !.mfail = o.mfail, !.nullblk = o.nullblk]
       /\ hist' = Record(hist, o.ret, size, o.blk)
  /\ UNCHANGED <<ba, links, bah, prog, pc, head, fba, b, badfree>>

\* arena_clear, one loop iteration per step.
arena_clear_begin ==
  /\ Running("arena")
  /\ pc' = "clear"
  /\ b' = arena.blocks
  /\ last' = Call("arena_clear", 0, 0, NULL)
  /\ UNCHANGED <<ba, links, bah, prog, head, fba, arena, heap, hist, crashed, badfree>>

\* A slip in the loop: the block is freed but the list is left to the
\* caller, so only the first block is released.
arena_clear_step_first_only ==
  /\ prog = "arena" /\ pc = "clear" /\ ~crashed
  /\ b # NULL
  /\ badfree' = (badfree \/ b \notin DOMAIN heap)
  /\ heap' = HeapWithout(heap, b)
  /\ b' = NULL
  /\ UNCHANGED <<ba, links, bah, prog, pc, head, fba, arena, hist, last, crashed>>

\* while (b) { next = b->next; free(b); b = next; }
arena_clear_step ==
  /\ prog = "arena" /\ pc = "clear" /\ ~crashed
  /\ b # NULL
  /\ badfree' = (badfree \/ b \notin DOMAIN heap)
  /\ heap' = HeapWithout(heap, b)
  /\ b' = IF b \in DOMAIN heap THEN heap[b].next ELSE NULL
  /\ UNCHANGED <<ba, links, bah, prog, pc, head, fba, arena, hist, last, crashed>>

\* a->blocks = NULL; return
arena_clear_end ==
  /\ prog = "arena" /\ pc = "clear" /\ ~crashed
  /\ b = NULL
  /\ arena' = [arena EXCEPT !.blocks = NULL]
  /\ pc' = "idle"
  /\ hist' = <<>>
  /\ UNCHANGED <<ba, links, bah, prog, head, fba, heap, b, last, crashed, badfree>>

NextArena ==
  \/ \E size \in ArenaSizes, align \in Aligns : arena_alloc(size, align)
  \/ arena_clear_begin
  \/ arena_clear_step
  \/ arena_clear_end

\* --------------------------------------------------- block_allocator.h --
\* The free list from ba->blocks along the links, at most n cells of it.
RECURSIVE FreeListN(_, _, _)
FreeListN(blk, m, n) ==
  IF blk = NULL \/ blk \notin DOMAIN m \/ n = 0 THEN <<>>
  ELSE <<blk>> \o FreeListN(m[blk], m, n - 1)

FreeList(a, m) == FreeListN(a.blocks, m, Cardinality(DOMAIN m) + 1)

\* for (i = 0; i < item_count; i++) { b = buffer + i * item_size;
\*   *b = {.next = prev}; prev = b; }
\* A later store to the same address replaces the earlier one.
RECURSIVE ba_init_loop(_, _, _, _, _, _)
\* The loop without the links: every cell's next is NULL.
ba_init_loop_unlinked(buf, item_size, count, i, prev, m) ==
  [mem  |-> [x \in {(buf + k * item_size) % M : k \in i .. count - 1}
               |-> NULL] @@ m,
   prev |-> IF i >= count THEN prev
            ELSE (buf + (count - 1) * item_size) % M]

ba_init_loop(buf, item_size, count, i, prev, m) ==
  IF i >= count THEN [mem |-> m, prev |-> prev]
  ELSE LET blk == (buf + i * item_size) % M
       IN  ba_init_loop(buf, item_size, count, i + 1, blk,
                        (blk :> prev) @@ m)

\* size_t item_count = buffer_size / item_size;
item_count(buffer_size, item_size) == buffer_size \div item_size

\* ba_init with the assertion compiled out.
ba_init_unchecked(buf, buffer_size, item_size) ==
  /\ Running("block_allocator")
  /\ ~bah.inited
  /\ last' = Call("ba_init", buffer_size, 0, NULL)
  /\ LET res == ba_init_loop(buf, item_size,
                             item_count(buffer_size, item_size), 0, NULL,
                             links)
     IN  /\ links' = res.mem
         /\ ba' = [buffer |-> buf, buffer_end |-> buf + buffer_size,
                   blocks |-> res.prev]
         /\ bah' = [bah EXCEPT !.inited = TRUE,
                               !.buffer_size = buffer_size,
                               !.item_size = item_size]
         /\ UNCHANGED crashed
  /\ UNCHANGED <<prog, pc, head, fba, arena, heap, b, hist, badfree>>

\* ba_init counting the trailing partial cell as a cell.
ba_init_rounds_up(buf, buffer_size, item_size) ==
  /\ Running("block_allocator")
  /\ ~bah.inited
  /\ last' = Call("ba_init", buffer_size, 0, NULL)
  /\ IF item_size < PtrSize
     THEN /\ crashed' = TRUE
          /\ bah' = [bah EXCEPT !.buffer_size = buffer_size,
                                !.item_size = item_size]
          /\ UNCHANGED <<ba, links>>
     ELSE LET res == ba_init_loop(buf, item_size,
                                  item_count(buffer_size + item_size - 1,
                                             item_size), 0, NULL, links)
          IN  /\ links' = res.mem
              /\ ba' = [buffer |-> buf, buffer_end |-> buf + buffer_size,
                        blocks |-> res.prev]
              /\ bah' = [bah EXCEPT !.inited = TRUE,
                                    !.buffer_size = buffer_size,
                                    !.item_size = item_size]
              /\ UNCHANGED crashed
  /\ UNCHANGED <<prog, pc, head, fba, arena, heap, b, hist, badfree>>

\* ba_init: a failed assert aborts the process before anything is written.
ba_init(buf, buffer_size, item_size) ==
  /\ Running("block_allocator")
  /\ ~bah.inited
  /\ last' = Call("ba_init", buffer_size, 0, NULL)
  /\ IF item_size < PtrSize
     THEN /\ crashed' = TRUE
          /\ bah' = [bah EXCEPT !.buffer_size = buffer_size,
                                !.item_size = item_size]
          /\ UNCHANGED <<ba, links>>
     ELSE LET res == ba_init_loop(buf, item_size,
                                  item_count(buffer_size, item_size), 0,
                                  NULL, links)
     IN  /\ links' = res.mem
              /\ ba' = [buffer |-> buf, buffer_end |-> buf + buffer_size,
                        blocks |-> res.prev]
              /\ bah' = [bah EXCEPT !.inited = TRUE,
                                    !.buffer_size = buffer_size,
                                    !.item_size = item_size]
              /\ UNCHANGED crashed
  /\ UNCHANGED <<prog, pc, head, fba, arena, heap, b, hist, badfree>>

\* ba_alloc that leaves the cell it returns at the head of the free list.
ba_alloc_no_pop ==
  /\ Running("block_allocator")
  /\ bah.inited
  /\ IF ba.blocks = NULL
     THEN /\ last' = Call("ba_alloc", 0, 0, NULL)
          /\ UNCHANGED <<ba, links, bah>>
     ELSE /\ last' = Call("ba_alloc", 0, 0, ba.blocks)
          /\ bah' = [bah EXCEPT !.out = @ \cup {ba.blocks}]
          /\ UNCHANGED <<ba, links>>
  /\ UNCHANGED <<prog, pc, head, fba, arena, heap, b, hist, crashed, badfree>>

ba_alloc ==
  /\ Running("block_allocator")
  /\ bah.inited
  /\ IF ba.blocks = NULL
     THEN /\ last' = Call("ba_alloc", 0, 0, NULL)
          /\ UNCHANGED <<ba, links, bah>>
     ELSE LET blk == ba.blocks
          IN  /\ ba' = [ba EXCEPT !.blocks = links[blk]]
              /\ links' = [links EXCEPT ![blk] = 0]
              /\ last' = Call("ba_alloc", 0, 0, blk)
              /\ bah' = [bah EXCEPT !.out = @ \cup {blk}]
  /\ UNCHANGED <<prog, pc, head, fba, arena, heap, b, hist, crashed, badfree>>

\* ba_free that stores the link and forgets to move the head of the list.
ba_free_no_push(ptr, st) ==
  /\ Running("block_allocator")
  /\ bah.inited
  /\ Cardinality(bah.out) <= MaxOutstanding
  /\ last' = Call("ba_free", 0, 0, NULL)
  /\ links' = IF ptr < ba.buffer \/ ptr > ba.buffer_end THEN links
              ELSE (ptr :> ba.blocks) @@ links
  /\ bah' = [bah EXCEPT !.p = ptr, !.freed = TRUE, !.out = @ \ {ptr},
                        !.misuse = @ \/ ptr \notin bah.out]
  /\ UNCHANGED <<ba, crashed>>
  /\ UNCHANGED <<prog, pc, head, fba, arena, heap, b, hist, badfree>>

ba_free(ptr, st) ==
  /\ Running("block_allocator")
  /\ bah.inited
  /\ Cardinality(bah.out) <= MaxOutstanding
  /\ last' = Call("ba_free", 0, 0, NULL)
  /\ IF ptr < ba.buffer \/ ptr > ba.buffer_end
     THEN /\ bah' = [bah EXCEPT !.p = ptr, !.freed = TRUE,
                                !.misuse = @ \/ ptr \notin bah.out]
          /\ UNCHANGED <<ba, links, crashed>>
     ELSE IF ptr + PtrSize > ba.buffer_end /\ st = "fault"
     THEN /\ crashed' = TRUE
          /\ bah' = [bah EXCEPT !.p = ptr, !.freed = TRUE,
                                !.misuse = @ \/ ptr \notin bah.out]
          /\ UNCHANGED <<ba, links>>
     ELSE /\ links' = (ptr :> ba.blocks) @@ links
          /\ ba' = [ba EXCEPT !.blocks = ptr]
          /\ bah' = [bah EXCEPT !.p = ptr, !.freed = TRUE,
                                !.out = @ \ {ptr},
                                !.misuse = @ \/ ptr \notin bah.out]
          /\ UNCHANGED crashed
  /\ UNCHANGED <<prog, pc, head, fba, arena, heap, b, hist, badfree>>

\* Pointers a caller passes to ba_free: a cell it holds and, once in a run,
\* another pointer: NULL, the head of the free list (a double free), an
\* address just below the buffer, at its end or behind it.
FreePtrs ==
  bah.out \cup
    (IF bah.misuse THEN {}
     ELSE {NULL, ba.blocks, (ba.buffer + M - PtrSize) % M,
           ba.buffer_end, ba.buffer_end + PtrSize})

NextBa ==
  \/ \E c \in BaConfigs : ba_init(BaBuffer, c[1], c[2])
  \/ ba_alloc
  \/ \E ptr \in FreePtrs, st \in StoreOutcomes : ba_free(ptr, st)

Next == NextLinear \/ NextFba \/ NextArena \/ NextBa

Spec == Init /\ [][Next]_vars

\* A running program keeps executing arena_clear's loop until it returns.
FairSpec == Spec /\ WF_vars(arena_clear_step) /\ WF_vars(arena_clear_end)

\* ------------------------------------------------------------ claims ----
\* The largest request a fresh block can hold: block capacity minus header.
Usable == ARENA_BLOCK_SIZE - HeaderSize

\* [p, p+s) and [q, q+t) share an address, ranges taken in the address space
\* of M words: one range starts inside the other.
Overlap(p, s, q, t) ==
  /\ s > 0 /\ t > 0
  /\ \/ (q - p + M) % M < s
     \/ (p - q + M) % M < t

\* The smallest multiple of align that is >= h, as a mathematical integer.
AlignUp(h, align) == h + ((align - (h % align)) % align)

\* The request fits into the block record r: no arithmetic wraps.
Fits(r, size, align) == AlignUp(r.head, align) + size <= r.buffer_end

\* C1: an fba_alloc_opt call that returns NULL leaves buffer, buffer_end and
\* head as they were before the call.
C1_FbaNoMutationOnFailure ==
  [][(last'.op = "fba_alloc_opt" /\ last'.ret = NULL) => fba' = fba]_vars

\* C2: when a malloc made by arena_alloc fails, arena_alloc returns NULL, the
\* process does not fault, no null block is accessed, and every existing
\* block and every earlier allocation stays as it was.
C2_BackingFailureReported ==
  [][(last'.op = "arena_alloc" /\ last'.mfail) =>
       /\ ~crashed'
       /\ ~last'.nullblk
       /\ last'.ret = NULL
       /\ hist' = hist
       /\ \A x \in DOMAIN heap : x \in DOMAIN heap' /\ heap'[x] = heap[x]]_vars

\* C3: every pointer allocate() has returned lies in the buffer together
\* with its size bytes, and no two returned ranges share a byte.
C3_LinearNoCorruption ==
  prog = "linear" =>
    /\ \A i \in 1..Len(hist) :
         /\ buffer <= hist[i].ptr
         /\ hist[i].ptr + hist[i].size <= buffer + BUFFER_SIZE
    /\ \A i, j \in 1..Len(hist) :
         i < j => ~Overlap(hist[i].ptr, hist[i].size,
                           hist[j].ptr, hist[j].size)

\* C4: an arena_alloc call that returns NULL (without having gone through a
\* null block) leaves the block list and every block's head as they were.
C4_ArenaNoMutationOnFailure ==
  [][(last'.op = "arena_alloc" /\ last'.ret = NULL /\ ~crashed'
        /\ ~last'.nullblk)
       => (arena' = arena /\ heap' = heap)]_vars

\* buffer <= head <= buffer_end for the FBA and for every arena block.
HeadsInBounds ==
  /\ fba.buffer <= fba.head /\ fba.head <= fba.buffer_end
  /\ \A x \in DOMAIN heap :
       x + HeaderSize <= heap[x].head /\ heap[x].head <= heap[x].buffer_end

\* C5: buffer <= head <= buffer_end after every operation, and an allocate
\* call never moves a head backward.
C5_HeadInvariant ==
  [][/\ HeadsInBounds'
     /\ last'.op = "fba_alloc_opt" => fba'.head >= fba.head
     /\ last'.op = "arena_alloc" =>
          \A x \in DOMAIN heap \cap DOMAIN heap' :
            heap'[x].head >= heap[x].head]_vars

\* C6: among the allocations of at least one byte returned since the last
\* reset/clear, later pointers from the same block are larger than earlier
\* ones and no two ranges share a byte.
C6_MonotoneDisjoint ==
  \A i, j \in 1..Len(hist) :
    (i < j /\ hist[i].blk # NULL /\ hist[j].blk # NULL
       /\ hist[i].size > 0 /\ hist[j].size > 0) =>
      /\ hist[i].blk = hist[j].blk => hist[i].ptr < hist[j].ptr
      /\ ~Overlap(hist[i].ptr, hist[i].size, hist[j].ptr, hist[j].size)

\* C7: a pointer returned by fba_alloc_opt or arena_alloc is a multiple of
\* align, is not below the head it was bumped from, and is less than align
\* above it: the smallest multiple of align >= that head.
C7_Alignment ==
  (last.op \in {"fba_alloc_opt", "arena_alloc"} /\ last.ret # NULL) =>
    /\ last.ret % last.align = 0
    /\ last.ret >= last.from
    /\ last.ret - last.from < last.align
    /\ last.ret = AlignUp(last.from, last.align)

\* C7 witness: fba_alloc_opt returned a pointer above an unaligned head.
C7_Witness ==
  /\ last.op = "fba_alloc_opt" /\ last.ret # NULL
  /\ last.align = 8 /\ last.from % 8 # 0 /\ last.ret > last.from

\* The pre-state of an arena_alloc(size, align) call that has to grow: the
\* most recent block has no room for the request, a fresh block has.
GrowthCase(size, align) ==
  /\ arena.blocks # NULL
  /\ ~Fits(heap[arena.blocks], size, align)
  /\ \A m \in MallocAddrs : Fits(arena_block_init(m, NULL), size, align)

\* What growth does: one new block in front of the old list, the returned
\* memory inside it, the earlier allocations and their blocks still there.
Grew ==
  LET new == arena'.blocks
  IN  /\ last'.ret # NULL
      /\ new \notin DOMAIN heap
      /\ DOMAIN heap' = DOMAIN heap \cup {new}
      /\ heap'[new].next = arena.blocks
      /\ BlockList(new, heap') = <<new>> \o BlockList(arena.blocks, heap)
      /\ new + HeaderSize <= last'.ret
      /\ last'.ret + last'.size <= new + ARENA_BLOCK_SIZE
      /\ hist' = Append(hist, Alloc(last'.ret, last'.size, new))

\* C8 as stated: whenever a request does not fit in the most recent block
\* but fits in a fresh one, arena_alloc succeeds by prepending exactly one
\* new block and returning memory from it; older blocks and pointers stay.
C8_GrowthAlways ==
  [][(last'.op = "arena_alloc" /\ GrowthCase(last'.size, last'.align))
       => Grew]_vars

\* C8 amended: the same, when the backing allocator supplies the new block.
C8_Growth ==
  [][(last'.op = "arena_alloc" /\ GrowthCase(last'.size, last'.align)
        /\ ~last'.mfail)
       => Grew]_vars

\* C8 witness: arena_alloc has just returned memory from a block it
\* prepended, with an earlier allocation still in the older block.
C8_Witness ==
  /\ last.op = "arena_alloc" /\ last.ret # NULL /\ ~last.mfail
  /\ Len(hist) = 2 /\ hist[1].blk # hist[2].blk
  /\ hist[2].blk = arena.blocks
  /\ arena.blocks \in DOMAIN heap
  /\ heap[arena.blocks].next = hist[1].blk

\* C9: with malloc working and align no stricter than the payload's
\* alignment, arena_alloc returns memory exactly when size <= Usable, and
\* every block is ARENA_BLOCK_SIZE bytes.
C9_SizeLimit ==
  /\ (last.op = "arena_alloc" /\ last.align <= PtrSize /\ ~last.mfail) =>
       (last.ret # NULL <=> last.size <= Usable)
  /\ \A x \in DOMAIN heap : heap[x].buffer_end - x = ARENA_BLOCK_SIZE

\* The blocks the arena has obtained from malloc are those on its list (or,
\* inside arena_clear, those its loop has still to visit); none was freed
\* twice; when arena_clear has returned, nothing is left.
ClearSafe ==
  /\ ~badfree
  /\ pc = "idle" =>
       DOMAIN heap = {BlockList(arena.blocks, heap)[i] :
                        i \in 1..Len(BlockList(arena.blocks, heap))}
  /\ pc = "clear" =>
       DOMAIN heap = {BlockList(b, heap)[i] :
                        i \in 1..Len(BlockList(b, heap))}
  /\ (pc = "idle" /\ last.op = "arena_clear") =>
       (arena.blocks = NULL /\ DOMAIN heap = {})

\* C10: arena_clear terminates, frees every block of the arena exactly once
\* and leaves the list empty; and no block is freed outside arena_clear.
C10_ClearReleasesAll ==
  /\ []ClearSafe
  /\ [][(DOMAIN heap \ DOMAIN heap' # {}) => (pc = "clear")]_vars
  /\ (pc = "clear") ~> (pc = "idle" /\ last.op = "arena_clear")

\* C10 witness: inside arena_clear, the most recent block is already freed
\* and the loop stands at the older block, the last one left.
C10_Witness ==
  /\ prog = "arena" /\ pc = "clear"
  /\ arena.blocks # NULL /\ arena.blocks \notin DOMAIN heap
  /\ DOMAIN heap = {b}
  /\ heap[b].next = NULL

\* C11: fba_reset leaves exactly the state fba_init gave for the same buffer
\* (so every later request behaves as on a fresh instance) and changes
\* nothing when head is already at buffer; arena_clear leaves the arena as
\* constructed, with no block alive, and changes nothing on an empty arena.
C11_ResetIdempotent ==
  /\ [][last'.op = "fba_reset" =>
          /\ fba' = [buffer |-> fba.buffer, buffer_end |-> fba.buffer_end,
                     head |-> fba.buffer]
          /\ fba.head = fba.buffer => fba' = fba
          /\ hist' = <<>>]_vars
  /\ [][(prog = "arena" /\ pc = "clear" /\ pc' = "idle") =>
          /\ arena' = [blocks |-> NULL]
          /\ heap' = EmptyHeap
          /\ hist' = <<>>
          /\ arena.blocks = NULL => (arena' = arena /\ heap' = heap)]_vars
  /\ [][(prog = "arena" /\ pc = "idle" /\ pc' = "clear"
           /\ arena.blocks = NULL) =>
          (b' = NULL /\ arena' = arena /\ heap' = heap /\ heap = EmptyHeap)]_vars

\* C11 witness: fba_reset has returned on an initialized FBA.
C11_Witness ==
  /\ prog = "fba" /\ last.op = "fba_reset"
  /\ fba.buffer # NULL /\ fba.head = fba.buffer
  /\ fba.buffer_end = fba.buffer + BUFFER_SIZE

\* C15: once head is past BUFFER_SIZE, every allocate call returns NULL.
C15_ExhaustionPermanent ==
  [][(prog = "linear" /\ head > BUFFER_SIZE /\ last'.op = "allocate")
       => last'.ret = NULL]_vars

\* C16: allocate(size) with head = h returns NULL exactly when
\* h + size > BUFFER_SIZE, else &buffer[h]; afterwards head is h + size.
C16_AllocateResult ==
  [][last'.op = "allocate" =>
       /\ last'.ret = NULL <=> head + last'.size > BUFFER_SIZE
       /\ last'.ret # NULL => last'.ret = buffer + head
       /\ head' = head + last'.size]_vars

\* C18: arena_alloc changes no block other than the one that was first in
\* the list when it was called and the one it prepends.
C18_OnlyMostRecent ==
  [][last'.op = "arena_alloc" =>
       \A x \in DOMAIN heap \ {arena.blocks} :
         x \in DOMAIN heap' /\ heap'[x] = heap[x]]_vars

\* C18 witness: arena_alloc has returned memory from the start of the most
\* recent block while an older block still had room for the request.
C18_Witness ==
  /\ last.op = "arena_alloc" /\ last.ret # NULL /\ last.blk = arena.blocks
  /\ last.from = arena.blocks + HeaderSize
  /\ \E x \in DOMAIN heap \ {arena.blocks} :
       /\ x + HeaderSize <= heap[x].head
       /\ Fits(heap[x], last.size, last.align)

\* ------------------------------------------------ block allocator claims --
SeqSet(s) == {s[i] : i \in DOMAIN s}

\* The cells ba_init laid out: buffer + i * item_size, i < item_count.
ItemCount == item_count(bah.buffer_size, bah.item_size)
Cells == {ba.buffer + i * bah.item_size : i \in 0 .. ItemCount - 1}

\* The caller has only given ba_free pointers it held.
WellUsed == bah.inited /\ ~bah.misuse

\* C12: the free list is a stack.  ba_free of a cell the caller holds puts
\* it in front of the free list and takes it, and nothing else, out of the
\* caller's hands; ba_alloc returns the front cell and removes it, so cells
\* come back in the reverse of the order they were freed; a ba_alloc right
\* after such a ba_free returns the cell just freed and the other cells the
\* caller holds stay allocated.
C12_LifoReuse ==
  /\ [][(WellUsed /\ last'.op = "ba_free" /\ bah'.p \in bah.out) =>
          /\ FreeList(ba', links') = <<bah'.p>> \o FreeList(ba, links)
          /\ bah'.out = bah.out \ {bah'.p}
          /\ ~crashed']_vars
  /\ [][(WellUsed /\ last'.op = "ba_alloc" /\ FreeList(ba, links) # <<>>) =>
          /\ last'.ret = Head(FreeList(ba, links))
          /\ FreeList(ba', links') = Tail(FreeList(ba, links))
          /\ bah'.out = bah.out \cup {last'.ret}]_vars
  /\ [][(WellUsed /\ last.op = "ba_free" /\ last'.op = "ba_alloc") =>
          /\ last'.ret = bah.p
          /\ bah.out \subseteq bah'.out
          /\ bah'.out = bah.out \cup {bah.p}]_vars

\* C12 witness: allocate A, allocate B, free A, allocate C: C is A, and B
\* is still held.
C12_Witness ==
  /\ WellUsed
  /\ bah.freed
  /\ last.op = "ba_alloc"
  /\ last.ret = bah.p
  /\ last.ret # NULL
  /\ \E other \in bah.out : other = last.ret + bah.item_size

\* C13: until the first ba_free, ba_alloc succeeds exactly while fewer than
\* item_count = buffer_size / item_size cells have been handed out, each
\* success is a cell not handed out before, and a failure changes nothing,
\* so every later call fails too; main's 4096-byte buffer of 36-byte items
\* has 113 cells.
C13_Capacity ==
  /\ [][(bah.inited /\ ~bah.freed /\ last'.op = "ba_alloc") =>
          /\ last'.ret # NULL <=> Cardinality(bah.out) < ItemCount
          /\ last'.ret # NULL =>
               /\ last'.ret \notin bah.out
               /\ bah'.out = bah.out \cup {last'.ret}
          /\ last'.ret = NULL => (ba' = ba /\ links' = links /\ bah' = bah)
          /\ item_count(BaMainBufferSize, BaMainItemSize) = 113]_vars
  /\ [](bah.inited /\ ~bah.freed => Cardinality(bah.out) <= ItemCount)

\* C13 witness: all K > 1 cells of a buffer of exactly K items are handed
\* out and ba_alloc has returned NULL.
C13_Witness ==
  /\ bah.inited /\ ~bah.freed
  /\ bah.buffer_size = ItemCount * bah.item_size
  /\ ItemCount > 1
  /\ Cardinality(bah.out) = ItemCount
  /\ last.op = "ba_alloc" /\ last.ret = NULL

\* C13 witness: a buffer smaller than one item has no cell at all.
C13_WitnessEmpty ==
  /\ bah.inited /\ bah.buffer_size < bah.item_size
  /\ last.op = "ba_alloc" /\ last.ret = NULL /\ bah.out = {}

C17_SlotInvariant ==
  /\ [](WellUsed =>
          LET fl == FreeList(ba, links)
          IN  /\ bah.out \subseteq Cells
              /\ SeqSet(fl) \subseteq Cells
              /\ \A c \in Cells : c + bah.item_size <= ba.buffer_end
              /\ Len(fl) = Cardinality(SeqSet(fl))
              /\ IF fl = <<>> THEN ba.blocks = NULL
                 ELSE links[fl[Len(fl)]] = NULL
              /\ SeqSet(fl) \cap bah.out = {}
              /\ SeqSet(fl) \cup bah.out = Cells
              /\ Cardinality(Cells) = ItemCount)
  /\ [][(WellUsed /\ last'.op = "ba_alloc" /\ last'.ret # NULL) =>
          /\ last'.ret \notin bah.out
          /\ \E i \in 0 .. ItemCount - 1 :
               last'.ret = ba.buffer + i * bah.item_size]_vars

\* C17 witness: over a buffer with trailing remainder bytes, after frees,
\* ba_alloc has returned a cell while other cells are held and free.
C17_Witness ==
  /\ WellUsed /\ bah.freed
  /\ bah.buffer_size % bah.item_size # 0
  /\ last.op = "ba_alloc" /\ last.ret # NULL
  /\ Cardinality(bah.out) > 1
  /\ FreeList(ba, links) # <<>>

\* Cell i of the buffer.
Cell(i) == ba.buffer + i * bah.item_size

\* C19: right after ba_init the free list is cell item_count - 1 down to
\* cell 0, each cell once; cell i links to cell i - 1 and cell 0 to NULL;
\* until the first ba_free, the k-th successful ba_alloc returns cell
\* item_count - k, item_size bytes below the one before.
C19_InitFreeList ==
  /\ [][(last'.op = "ba_init" /\ bah'.inited) =>
          /\ FreeList(ba', links') =
               [k \in 1 .. ItemCount' |->
                  ba'.buffer + (ItemCount' - k) * bah'.item_size]
          /\ \A i \in 0 .. ItemCount' - 1 :
               links'[ba'.buffer + i * bah'.item_size] =
                 IF i = 0 THEN NULL
                 ELSE ba'.buffer + (i - 1) * bah'.item_size
          /\ ba'.blocks = IF ItemCount' = 0 THEN NULL
                          ELSE ba'.buffer + (ItemCount' - 1) * bah'.item_size
          /\ ba'.buffer_end = ba'.buffer + bah'.buffer_size]_vars
  /\ [][(bah.inited /\ ~bah.freed /\ last'.op = "ba_alloc"
         /\ last'.ret # NULL) =>
          /\ last'.ret = Cell(ItemCount - 1 - Cardinality(bah.out))
          /\ last.op = "ba_alloc" => last'.ret = last.ret - bah.item_size]_vars

\* C19 witness: with no ba_free, the third ba_alloc has returned cell
\* item_count - 3.
C19_Witness ==
  /\ bah.inited /\ ~bah.freed
  /\ last.op = "ba_alloc"
  /\ Cardinality(bah.out) = 3
  /\ last.ret = Cell(ItemCount - 3)

\* C20: ba_init with item_size below the size of a link aborts in the
\* assertion with no cell written and no allocator built, so an initialized
\* allocator has item_size >= sizeof(block_allocator_block_t) and the link
\* fields of two of its cells never overlap.
C20_SizePrecondition ==
  /\ [][(last'.op = "ba_init" /\ bah'.item_size < PtrSize) =>
          /\ crashed'
          /\ links' = links
          /\ ba' = ba
          /\ ~bah'.inited]_vars
  /\ [](bah.inited =>
          /\ bah.item_size >= PtrSize
          /\ \A c1, c2 \in DOMAIN links \cap Cells :
               c1 < c2 => c1 + PtrSize <= c2)

\* C20 witness: ba_init was called with 4-byte items and the process has
\* aborted with nothing written.
C20_Witness ==
  /\ last.op = "ba_init"
  /\ bah.item_size < PtrSize /\ bah.item_size > 0
  /\ crashed
  /\ ~bah.inited
  /\ links = EmptyHeap

====
